---- MODULE Spec2Model ----
(***************************************************************************)
(* A model of the Decision Intelligence Dashboard (src/main.py).           *)
(*                                                                         *)
(* The program is a Streamlit script: every run of main() rebuilds the     *)
(* table data from a literal list of records, writes derived columns     *)
(* onto it, renders four metric tiles, reads three multiselect widgets,    *)
(* and builds the filtered table and the views derived from it.  A change  *)
(* of a widget reruns the script from the top.                             *)
(*                                                                         *)
(* Text that the program compares, orders or searches (owners, inputs,     *)
(* dates, input-type labels) is a sequence of one-character strings, so    *)
(* that lower(), in, string ordering and date parsing are computed.      *)
(* A non-ASCII character of the source is written as the token of its      *)
(* code point ("U+1F4CA"); ord gives the code point.  Text that is only    *)
(* carried along (ID, Team, Goal, ...) is an ordinary string.              *)
(***************************************************************************)
EXTENDS Integers, Sequences, FiniteSets, TLC

VARIABLES
  source,                 \* the literal list of dicts handed to pd.DataFrame
  pc,                     \* the statement of main() that runs next
  error,                  \* the exception that ended the run ("" when none)
  nextId,                 \* the next fresh object identity of this run
  data,                   \* the DataFrame data
  tiles,                  \* the four st.metric tiles
  f_owner, f_team, f_effect,   \* the multiselect selections (widget state)
  filtered,               \* the DataFrame filtered
  star_table, log_table,  \* the frames handed to st.dataframe (sections 6, 7)
  effectiveness_summary,  \* section 8
  fig2,                   \* the points of the scatter plot (section 9)
  inputs_used,            \* section 10
  owner_summary,          \* section 11, as aggregated
  owner_table             \* section 11, as displayed (owner_summary.round(1))

vars == <<source, pc, error, nextId, data, tiles, f_owner, f_team, f_effect,
          filtered, star_table, log_table, effectiveness_summary, fig2,
          inputs_used, owner_summary, owner_table>>

(***************************************************************************)
(* Characters and strings (Python str)                                     *)
(***************************************************************************)

\* The printable ASCII characters, code points 32 .. 126 in order (the
\* grave accent, 96, as a token: a TLA+ string cannot hold it).
Ascii ==
  <<" ", "!", "\"", "#", "$", "%", "&", "'", "(", ")", "*", "+", ",", "-", ".", "/", "0", "1", "2", "3", "4", "5", "6", "7", "8", "9", ":", ";", "<", "=", ">", "?", "@", "A", "B", "C", "D", "E", "F", "G", "H", "I", "J", "K", "L", "M", "N", "O", "P", "Q", "R", "S", "T", "U", "V", "W", "X", "Y", "Z", "[", "\\", "]", "^", "_", "U+0060", "a", "b", "c", "d", "e", "f", "g", "h", "i", "j", "k", "l", "m", "n", "o", "p", "q", "r", "s", "t", "u", "v", "w", "x", "y", "z", "{", "|", "}", "~">>

\* The non-ASCII characters of the literals on lines 93-97.
Emoji == {"U+1F4CA", "U+1F50D", "U+1F5E3", "U+FE0F"}

Chars == {Ascii[i] : i \in 1..Len(Ascii)} \cup Emoji

CodePoint ==
  [c \in Chars |->
     CASE c = "U+1F4CA" -> 128202
       [] c = "U+1F50D" -> 128269
       [] c = "U+1F5E3" -> 128483
       [] c = "U+FE0F"  -> 65039
       [] OTHER -> 31 + (CHOOSE i \in 1..Len(Ascii) : Ascii[i] = c)]

\* ord(c)
ord(c) == CodePoint[c]

\* chr(n), for n in the ASCII range
chr(n) == Ascii[n - 31]

\* str.lower() on one character: 'A'..'Z' map to 'a'..'z', the rest is kept
LowerChar(c) == IF ord(c) >= 65 /\ ord(c) <= 90 THEN chr(ord(c) + 32) ELSE c

\* str.lower()
lower(s) == [i \in 1..Len(s) |-> LowerChar(s[i])]

\* x in s, for strings: x occurs in s as a contiguous substring
contains(x, s) ==
  \E i \in 0..(Len(s) - Len(x)) : SubSeq(s, i + 1, i + Len(x)) = x

\* a < b for Python strings: lexicographic by code point
StrLess(a, b) ==
  LET n == IF Len(a) < Len(b) THEN Len(a) ELSE Len(b)
      diff == {i \in 1..n : a[i] # b[i]}
  IN  IF diff = {}
        THEN Len(a) < Len(b)
        ELSE LET i == CHOOSE j \in diff : \A k \in diff : j <= k
             IN  ord(a[i]) < ord(b[i])

(***************************************************************************)
(* Literals of the source                                                  *)
(***************************************************************************)

\* The Effectiveness labels (lines 25, 39, 53).  The program only compares
\* them for equality; the leading emoji of each label is left out here.
Effective == "Effective"
SomewhatEffective == "Somewhat Effective"
NotEffective == "Not Effective"

\* The Input Type labels (lines 93, 95, 97), with their emoji: the labels
\* are group keys in section 10 and are ordered as strings there.
DataAnalysis == <<"U+1F4CA", " ", "D", "a", "t", "a", " ", "A", "n", "a", "l", "y", "s", "i", "s">>
Feedback == <<"U+1F5E3", "U+FE0F", " ", "F", "e", "e", "d", "b", "a", "c", "k">>
Observation == <<"U+1F50D", " ", "O", "b", "s", "e", "r", "v", "a", "t", "i", "o", "n">>

\* The keyword lists of categorize_input (lines 92, 94)
KwTrend == <<"t", "r", "e", "n", "d">>
KwAnalysis == <<"a", "n", "a", "l", "y", "s", "i", "s">>
KwLogs == <<"l", "o", "g", "s">>
KwSurvey == <<"s", "u", "r", "v", "e", "y">>
KwComment == <<"c", "o", "m", "m", "e", "n", "t">>
KwComplaint == <<"c", "o", "m", "p", "l", "a", "i", "n", "t">>
DataKeywords == <<KwTrend, KwAnalysis, KwLogs>>
FeedbackKeywords == <<KwSurvey, KwComment, KwComplaint>>

\* The column names of the literal, in the order of the dict keys (lines 16-27)
SourceColumns ==
  <<"ID", "Owner", "Team", "Decision Date", "Outcome Date", "Goal",
    "What Was Tried", "Inputs Used", "Result", "Effectiveness",
    "Repeatable Win", "STAR Decision">>

\* One dict of the literal list
Dict(id, owner, team, ddate, odate, goal, tried, inputs, result, eff, rep, star) ==
  [c \in {SourceColumns[i] : i \in 1..Len(SourceColumns)} |->
     CASE c = "ID" -> id
       [] c = "Owner" -> owner
       [] c = "Team" -> team
       [] c = "Decision Date" -> ddate
       [] c = "Outcome Date" -> odate
       [] c = "Goal" -> goal
       [] c = "What Was Tried" -> tried
       [] c = "Inputs Used" -> inputs
       [] c = "Result" -> result
       [] c = "Effectiveness" -> eff
       [] c = "Repeatable Win" -> rep
       [] c = "STAR Decision" -> star]

\* The five records of lines 14-85
D001 ==
  Dict("D001", <<"M", "a", "r", "i", "a", " ", "G", ".">>, "Call Center",
       <<"2", "0", "2", "5", "-", "0", "7", "-", "0", "1">>,
       <<"2", "0", "2", "5", "-", "0", "7", "-", "0", "5">>,
       "Lower ASA", "Realigned shift start times",
       <<"C", "a", "l", "l", " ", "v", "o", "l", "u", "m", "e", " ", "t", "r", "e", "n", "d", ",", " ", "s", "h", "i", "f", "t", " ", "o", "v", "e", "r", "l", "a", "p", " ", "d", "a", "t", "a">>,
       "ASA dropped from 42s to 28s", Effective, TRUE, TRUE)

D002 ==
  Dict("D002", <<"J", "a", "m", "e", "s", " ", "K", ".">>, "Referral",
       <<"2", "0", "2", "5", "-", "0", "7", "-", "0", "3">>,
       <<"2", "0", "2", "5", "-", "0", "7", "-", "1", "0">>,
       "Faster Scheduling", "Removed manual form review",
       <<"R", "e", "f", "e", "r", "r", "a", "l", " ", "a", "p", "p", "r", "o", "v", "a", "l", " ", "l", "o", "g", "s">>,
       "Scheduling improved by 2 days", SomewhatEffective, FALSE, FALSE)

D003 ==
  Dict("D003", <<"L", "i", "n", "d", "a", " ", "T", ".">>, "Billing",
       <<"2", "0", "2", "5", "-", "0", "7", "-", "0", "5">>,
       <<"2", "0", "2", "5", "-", "0", "7", "-", "1", "7">>,
       "Lower AR Days", "Added denial triage in backlog",
       <<"A", "n", "e", "c", "d", "o", "t", "a", "l", " ", "s", "t", "a", "f", "f", " ", "c", "o", "m", "p", "l", "a", "i", "n", "t", "s">>,
       "No measurable impact yet", NotEffective, FALSE, FALSE)

D004 ==
  Dict("D004", <<"C", "a", "r", "l", "o", "s", " ", "V", ".">>, "QA",
       <<"2", "0", "2", "5", "-", "0", "7", "-", "0", "6">>,
       <<"2", "0", "2", "5", "-", "0", "7", "-", "1", "1">>,
       "Improve Patient Experience", "Call empathy scripts",
       <<"P", "a", "t", "i", "e", "n", "t", " ", "s", "u", "r", "v", "e", "y", " ", "c", "o", "m", "m", "e", "n", "t", "s">>,
       "Survey scores improved", Effective, TRUE, TRUE)

D005 ==
  Dict("D005", <<"M", "a", "r", "i", "a", " ", "G", ".">>, "Call Center",
       <<"2", "0", "2", "5", "-", "0", "7", "-", "0", "8">>,
       <<"2", "0", "2", "5", "-", "0", "7", "-", "1", "0">>,
       "Reduce Call Transfers", "Expanded self-service tree",
       <<"T", "o", "p", " ", "1", "0", " ", "c", "a", "l", "l", " ", "r", "e", "a", "s", "o", "n", "s", " ", "a", "n", "a", "l", "y", "s", "i", "s">>,
       "Transfers down 12%", Effective, TRUE, FALSE)

SampleData == <<D001, D002, D003, D004, D005>>

(***************************************************************************)
(* Dates: pd.to_datetime on "YYYY-MM-DD" text and Timestamp subtraction    *)
(***************************************************************************)

\* int() of a string of decimal digits
RECURSIVE ParseInt(_)
ParseInt(s) ==
  IF s = <<>> THEN 0
  ELSE 10 * ParseInt(SubSeq(s, 1, Len(s) - 1)) + (ord(s[Len(s)]) - 48)

\* pd.to_datetime of one ISO-8601 calendar date "YYYY-MM-DD" (lines 100, 101):
\* the Timestamp of that day at midnight
to_datetime(s) ==
  [year |-> ParseInt(SubSeq(s, 1, 4)),
   month |-> ParseInt(SubSeq(s, 6, 7)),
   day |-> ParseInt(SubSeq(s, 9, 10))]

IsLeap(y) == (y % 4 = 0) /\ ((y % 100 # 0) \/ (y % 400 = 0))

DaysInMonth(y, m) ==
  CASE m \in {1, 3, 5, 7, 8, 10, 12} -> 31
    [] m \in {4, 6, 9, 11} -> 30
    [] OTHER -> IF IsLeap(y) THEN 29 ELSE 28

RECURSIVE DaysBeforeMonth(_, _)
DaysBeforeMonth(y, m) ==
  IF m <= 1 THEN 0 ELSE DaysBeforeMonth(y, m - 1) + DaysInMonth(y, m - 1)

\* The number of the day in the proleptic Gregorian calendar (0001-01-01 is 1)
toordinal(t) ==
  LET y == t.year - 1
  IN  y * 365 + (y \div 4) - (y \div 100) + (y \div 400)
      + DaysBeforeMonth(t.year, t.month) + t.day

\* (a - b).days for two midnight Timestamps (line 102)
DaysBetween(a, b) == toordinal(a) - toordinal(b)

(***************************************************************************)
(* Numbers: Python ints, and floats as exact fractions                     *)
(***************************************************************************)

\* A mean is a float in the program and the exact fraction here.  The two
\* are formatted and rounded alike as long as no decimal half is met that
\* a float cannot hold: with fewer than 20 rows a half is a multiple of 1/4
\* or 1/8, which floats hold exactly, and Python and numpy round it to even.

\* float('nan'), the mean of no values: the fraction 0/0
NaN == [num |-> 0, den |-> 0]

Abs(n) == IF n < 0 THEN 0 - n ELSE n

RECURSIVE Gcd(_, _)
Gcd(a, b) == IF b = 0 THEN a ELSE Gcd(b, a % b)

\* The fraction n/d (d > 0) in lowest terms
Rat(n, d) ==
  LET g == Gcd(Abs(n), d)
  IN  [num |-> n \div g, den |-> d \div g]

RECURSIVE Sum(_)
Sum(s) == IF s = <<>> THEN 0 ELSE s[1] + Sum(Tail(s))

\* The number of True values of a Boolean Series
CountTrue(s) == Cardinality({i \in 1..Len(s) : s[i]})

\* Series.mean() of an integer Series
Mean(s) == IF s = <<>> THEN NaN ELSE Rat(Sum(s), Len(s))

\* Series.mean() of a Boolean Series
MeanBool(s) == IF s = <<>> THEN NaN ELSE Rat(CountTrue(s), Len(s))

\* x * 100
Times100(x) == IF x = NaN THEN NaN ELSE Rat(100 * x.num, x.den)

\* The integer nearest to n/d (d > 0), a tie going to the even one
RoundHalfEven(n, d) ==
  LET q == n \div d
      r == n - q * d
  IN  IF 2 * r < d THEN q
      ELSE IF 2 * r > d THEN q + 1
      ELSE IF q % 2 = 0 THEN q ELSE q + 1

\* The text of a formatted float: the number its digits denote, or "nan"
Digits(n) == [isnan |-> FALSE, value |-> n]
NaNText == [isnan |-> TRUE, value |-> 0]

\* A faulty variant of Format0f: the digits after the point are cut off, not rounded
Format0fTruncating(x) == IF x = NaN THEN NaNText ELSE Digits(x.num \div x.den)

\* f"{x:.0f}": the integer shown
Format0f(x) == IF x = NaN THEN NaNText ELSE Digits(RoundHalfEven(x.num, x.den))

\* f"{x:.1f}": the number shown, in tenths
Format1f(x) ==
  IF x = NaN THEN NaNText ELSE Digits(RoundHalfEven(10 * x.num, x.den))

\* round(x, 1) of DataFrame.round(1)
Round1(x) == IF x = NaN THEN NaN ELSE Rat(RoundHalfEven(10 * x.num, x.den), 10)

(***************************************************************************)
(* pandas: Series are sequences of values, a DataFrame is an object with   *)
(* an identity, its column names, its index labels and its rows            *)
(***************************************************************************)

\* A name of main() that is not bound yet
None == [unbound |-> TRUE]

Range(s) == {s[i] : i \in 1..Len(s)}

\* The elements of a finite set of integers in increasing order
Ascending(S) ==
  [j \in 1..Cardinality(S) |->
     CHOOSE i \in S : Cardinality({x \in S : x < i}) = j - 1]

\* RangeIndex(n): the labels 0 .. n-1
RangeIndex(n) == [i \in 1..n |-> i - 1]

\* pd.DataFrame(list of dicts): the columns are the keys of the dicts, a
\* list of no dicts gives a frame of no columns and no rows
DataFrame(id, dicts) ==
  [id |-> id,
   columns |-> IF dicts = <<>> THEN <<>> ELSE SourceColumns,
   index |-> RangeIndex(Len(dicts)),
   rows |-> dicts]

\* df[name], for a column the frame has
Column(df, name) == [i \in 1..Len(df.rows) |-> df.rows[i][name]]

\* df[name] = values, in place: the column is replaced, or appended as the
\* last column when the frame has none of that name
SetColumn(df, name, values) ==
  [df EXCEPT
     !.columns = IF name \in Range(df.columns) THEN @ ELSE Append(@, name),
     !.rows = [i \in 1..Len(df.rows) |->
                 [c \in (DOMAIN df.rows[i]) \cup {name} |->
                    IF c = name THEN values[i] ELSE df.rows[i][c]]]]

\* df.copy(): a new object with the same contents
Copy(df, id) == [df EXCEPT !.id = id]

\* Series.isin(values)
isin(s, values) == [i \in 1..Len(s) |-> s[i] \in values]

\* df[mask]: a new frame of the rows whose mask is True, in their order and
\* under their index labels
BoolIndex(df, mask, id) ==
  LET pos == Ascending({i \in 1..Len(df.rows) : mask[i]})
  IN  [id |-> id,
       columns |-> df.columns,
       index |-> [j \in 1..Len(pos) |-> df.index[pos[j]]],
       rows |-> [j \in 1..Len(pos) |-> df.rows[pos[j]]]]

\* df.reset_index(drop=True): a new frame, relabelled 0 .. n-1
ResetIndexDrop(df, id) ==
  [df EXCEPT !.id = id, !.index = RangeIndex(Len(df.rows))]

\* Series.unique(): the distinct values in order of first appearance
RECURSIVE Unique(_)
Unique(s) ==
  IF s = <<>> THEN <<>>
  ELSE LET u == Unique(SubSeq(s, 1, Len(s) - 1))
           x == s[Len(s)]
       IN  IF x \in Range(u) THEN u ELSE Append(u, x)

\* The permutations of 1 .. n
Perms(n) == {p \in [1..n -> 1..n] : \A i, j \in 1..n : p[i] = p[j] => i = j}

\* sort_values(by, ascending=False) with the default kind="quicksort", which
\* is not a stable sort: the orders it may leave the rows in are those with
\* the keys non-increasing; rows of equal key come in any order.  An order p
\* puts row p[j] of the input at position j.
SortDescOrders(keys) ==
  {p \in Perms(Len(keys)) :
     \A i, j \in 1..Len(keys) : i < j => keys[p[i]] >= keys[p[j]]}

\* The rows and labels of a frame in the order p
Reorder(df, p) ==
  [df EXCEPT !.index = [j \in 1..Len(p) |-> df.index[p[j]]],
             !.rows = [j \in 1..Len(p) |-> df.rows[p[j]]]]

\* Tuples of two strings compare lexicographically
PairLess(a, b) == StrLess(a[1], b[1]) \/ (a[1] = b[1] /\ StrLess(a[2], b[2]))

\* The group keys of a groupby (sort=True) by one string column: the
\* distinct keys in ascending order
SortedStrings(S) ==
  [j \in 1..Cardinality(S) |->
     CHOOSE k \in S : Cardinality({x \in S : StrLess(x, k)}) = j - 1]

\* The group keys of a groupby (sort=True) by two string columns
SortedPairs(S) ==
  [j \in 1..Cardinality(S) |->
     CHOOSE k \in S : Cardinality({x \in S : PairLess(x, k)}) = j - 1]

(***************************************************************************)
(* The computations of main()                                              *)
(***************************************************************************)

\* any(x in text for x in keywords)
AnyKeyword(keywords, text) ==
  \E i \in 1..Len(keywords) : contains(keywords[i], text)

\* A faulty variant of categorize_input: the text is not lower-cased
categorize_input_case_sensitive(input_text) ==
  IF AnyKeyword(DataKeywords, input_text) THEN DataAnalysis
  ELSE IF AnyKeyword(FeedbackKeywords, input_text) THEN Feedback
  ELSE Observation

\* categorize_input (lines 91-97)
categorize_input(input_text) ==
  IF AnyKeyword(DataKeywords, lower(input_text)) THEN DataAnalysis
  ELSE IF AnyKeyword(FeedbackKeywords, lower(input_text)) THEN Feedback
  ELSE Observation

\* Series.apply(categorize_input) (line 99)
ApplyCategorize(s) == [i \in 1..Len(s) |-> categorize_input(s[i])]

\* pd.to_datetime of a Series of date texts (lines 100, 101)
ToDatetimeSeries(s) == [i \in 1..Len(s) |-> to_datetime(s[i])]

\* data["Outcome Date"] - data["Decision Date"], in days (line 102)
TimeToOutcomeDays(df) ==
  [i \in 1..Len(df.rows) |->
     DaysBetween(df.rows[i]["Outcome Date"], df.rows[i]["Decision Date"])]

\* Series == value
Equals(s, v) == [i \in 1..Len(s) |-> s[i] = v]

\* The values of the four tiles computed from a frame (lines 118-121)
summaryMetrics(df) ==
  [TotalDecisions |-> Len(df.rows),
   AvgTimeToOutcome |-> Format1f(Mean(Column(df, "Time to Outcome (days)"))),
   EffectiveRate |->
     Format0f(Times100(MeanBool(Equals(Column(df, "Effectiveness"), Effective)))),
   RepeatableWins |-> CountTrue(Column(df, "Repeatable Win"))]

\* A faulty variant of FilterStep: no test of the selection, an empty one keeps no row
FilterStepEmptySelectsNone(df, col, selected, id) ==
  BoolIndex(df, isin(Column(df, col), selected), id)

\* One if f_x: filtered = filtered[filtered[col].isin(f_x)] (lines 132-137)
FilterStep(df, col, selected, id) ==
  IF selected # {}
    THEN BoolIndex(df, isin(Column(df, col), selected), id)
    ELSE df

\* A faulty variant of CopyOfData: filtered = data, the same object
NoCopy(df, id) == df

\* filtered = data.copy() (line 131)
CopyOfData(df, id) == Copy(df, id)

\* Lines 131-137
FilterFrame(df, owners, teams, effects, id) ==
  LET f0 == CopyOfData(df, id)
      f1 == FilterStep(f0, "Owner", owners, id + 1)
      f2 == FilterStep(f1, "Team", teams, id + 2)
  IN  FilterStep(f2, "Effectiveness", effects, id + 3)

\* filtered[filtered["STAR Decision"]].reset_index(drop=True) (line 144)
StarDecisions(df, id) ==
  ResetIndexDrop(BoolIndex(df, Column(df, "STAR Decision"), id), id + 1)

\* The number of elements of s equal to v
CountOf(s, v) == Cardinality({i \in 1..Len(s) : s[i] = v})

\* A row of effectiveness_summary
EffRow(value, count) == [Effectiveness |-> value, Count |-> count]

\* A faulty variant of ValueCounts: a row for each of the three labels, also of count 0
ValueCountsAllValues(s, id) ==
  LET keys == <<Effective, SomewhatEffective, NotEffective>>
      counts == [i \in 1..Len(keys) |-> CountOf(s, keys[i])]
  IN  {[id |-> id,
        columns |-> <<"Effectiveness", "Count">>,
        index |-> RangeIndex(Len(keys)),
        rows |-> [j \in 1..Len(keys) |-> EffRow(keys[p[j]], counts[p[j]])]]
       : p \in SortDescOrders(counts)}

\* Series.value_counts().reset_index() with the columns renamed (lines
\* 157-158): one row per value that occurs, by count descending.  The set
\* of the frames the sort may produce.
ValueCounts(s, id) ==
  LET keys == Unique(s)
      counts == [i \in 1..Len(keys) |-> CountOf(s, keys[i])]
  IN  {[id |-> id,
        columns |-> <<"Effectiveness", "Count">>,
        index |-> RangeIndex(Len(keys)),
        rows |-> [j \in 1..Len(keys) |-> EffRow(keys[p[j]], counts[p[j]])]]
       : p \in SortDescOrders(counts)}

\* The points of px.scatter (lines 169-177)
ScatterPoints(df) ==
  [i \in 1..Len(df.rows) |->
     [x |-> df.rows[i]["Owner"],
      y |-> df.rows[i]["Time to Outcome (days)"],
      color |-> df.rows[i]["Effectiveness"],
      hover |-> <<df.rows[i]["Goal"], df.rows[i]["Inputs Used"],
                  df.rows[i]["Result"]>>]]

\* A row of inputs_used
InputsRow(type, text, n) ==
  [c \in {"Input Type", "Inputs Used", "Times Used"} |->
     CASE c = "Input Type" -> type
       [] c = "Inputs Used" -> text
       [] c = "Times Used" -> n]

\* A faulty variant of InputGroupKeys: the groups of data, not of filtered
InputGroupKeysOfData(df) ==
  SortedPairs({<<data.rows[i]["Input Type"], data.rows[i]["Inputs Used"]>> :
                 i \in 1..Len(data.rows)})

\* The group keys of groupby(["Input Type", "Inputs Used"]) (line 186)
InputGroupKeys(df) ==
  SortedPairs({<<df.rows[i]["Input Type"], df.rows[i]["Inputs Used"]>> :
                 i \in 1..Len(df.rows)})

\* groupby([...]).size().reset_index(name="Times Used") (lines 186-188)
InputGroupSizes(df, id) ==
  LET keys == InputGroupKeys(df)
      size(k) == Cardinality({i \in 1..Len(df.rows) :
                   <<df.rows[i]["Input Type"], df.rows[i]["Inputs Used"]>> = k})
  IN  [id |-> id,
       columns |-> <<"Input Type", "Inputs Used", "Times Used">>,
       index |-> RangeIndex(Len(keys)),
       rows |-> [j \in 1..Len(keys) |->
                   InputsRow(keys[j][1], keys[j][2], size(keys[j]))]]

\* A faulty variant of InputUsage: no sort_values, the groups stay in key order
InputUsageUnsorted(df, id) == {[InputGroupSizes(df, id) EXCEPT !.id = id + 1]}

\* Lines 185-190: the set of the frames the final sort may produce
InputUsage(df, id) ==
  LET g == InputGroupSizes(df, id)
  IN  {[Reorder(g, p) EXCEPT !.id = id + 1] :
         p \in SortDescOrders(Column(g, "Times Used"))}

\* A row of owner_summary
OwnerRow(owner, made, pct, avg) ==
  [c \in {"Owner", "Decisions Made", "% Effective", "Avg Time to Outcome"} |->
     CASE c = "Owner" -> owner
       [] c = "Decisions Made" -> made
       [] c = "% Effective" -> pct
       [] c = "Avg Time to Outcome" -> avg]

\* The group keys of groupby("Owner") (line 198)
OwnerGroupKeys(df) == SortedStrings(Range(Column(df, "Owner")))

\* A faulty variant of PercentEffective: the share is not multiplied by 100
ShareEffective(s) == MeanBool(Equals(s, Effective))

\* lambda x: (x == "Effective").mean() * 100 (line 200)
PercentEffective(s) == Times100(MeanBool(Equals(s, Effective)))

\* Lines 198-206
OwnerSummary(df, id) ==
  LET keys == OwnerGroupKeys(df)
      group(k) == BoolIndex(df, Equals(Column(df, "Owner"), k), id)
  IN  [id |-> id,
       columns |-> <<"Owner", "Decisions Made", "% Effective",
                     "Avg Time to Outcome">>,
       index |-> RangeIndex(Len(keys)),
       rows |-> [j \in 1..Len(keys) |->
                   LET g == group(keys[j])
                   IN  OwnerRow(keys[j],
                                Len(g.rows),
                                PercentEffective(Column(g, "Effectiveness")),
                                Mean(Column(g, "Time to Outcome (days)")))]]

\* owner_summary.round(1) (line 207): the float columns to one decimal
RoundFrame(df, id) ==
  [df EXCEPT
     !.id = id,
     !.rows = [i \in 1..Len(df.rows) |->
                 [df.rows[i] EXCEPT
                    !["% Effective"] = Round1(@),
                    !["Avg Time to Outcome"] = Round1(@)]]]

\* The options of a multiselect (lines 128-130)
Options(df, col) == Range(Unique(Column(df, col)))

(***************************************************************************)
(* Tables other than the sample: the computations of main() as functions   *)
(* of the list handed to pd.DataFrame                                      *)
(***************************************************************************)

\* The longest list of records tried besides the sample
MaxRecords == 3

\* Records that differ from the sample's: an owner in lower case, the same
\* inputs text under two owners, two texts of one input type, a text with a
\* keyword of each list, one of them in upper case and inside a longer
\* word, a Feedback keyword with a capital, a text of no keyword, an empty
\* text, an outcome before its decision, an outcome on the day of its
\* decision, dates across the end of February of a leap year and across
\* the end of a year.
G1 ==
  Dict("G1", <<"Z", "o", "e">>, "A",
       <<"2", "0", "2", "4", "-", "0", "2", "-", "2", "8">>,
       <<"2", "0", "2", "4", "-", "0", "3", "-", "0", "1">>,
       "g1", "w1",
       <<"C", "a", "t", "a", "L", "O", "G", "S", ",", " ", "s", "u", "r", "v", "e", "y">>,
       "r1", Effective, TRUE, TRUE)

G2 ==
  Dict("G2", <<"a", "m", "y">>, "B",
       <<"2", "0", "2", "5", "-", "0", "7", "-", "0", "5">>,
       <<"2", "0", "2", "5", "-", "0", "7", "-", "0", "1">>,
       "g2", "w2",
       <<"G", "u", "t", " ", "f", "e", "e", "l">>,
       "r2", NotEffective, FALSE, FALSE)

G3 ==
  Dict("G3", <<"B", "o", "b">>, "A",
       <<"2", "0", "2", "5", "-", "1", "2", "-", "3", "1">>,
       <<"2", "0", "2", "6", "-", "0", "1", "-", "0", "1">>,
       "g3", "w3",
       <<"C", "o", "m", "m", "e", "n", "t">>,
       "r3", SomewhatEffective, TRUE, FALSE)

G4 ==
  Dict("G4", <<"Z", "o", "e">>, "B",
       <<"2", "0", "2", "5", "-", "0", "7", "-", "0", "1">>,
       <<"2", "0", "2", "5", "-", "0", "7", "-", "0", "1">>,
       "g4", "w4",
       <<>>,
       "r4", Effective, FALSE, TRUE)

G5 ==
  Dict("G5", <<"B", "o", "b">>, "A",
       <<"2", "0", "2", "5", "-", "0", "3", "-", "0", "1">>,
       <<"2", "0", "2", "5", "-", "0", "3", "-", "3", "1">>,
       "g5", "w5",
       <<>>,
       "r5", Effective, TRUE, FALSE)

Pool == {G1, G2, G3, G4, G5}

\* The lists of up to MaxRecords distinct records of the pool
Lists ==
  {s \in UNION {[1..n -> Pool] : n \in 0..MaxRecords} :
     \A i, j \in 1..Len(s) : s[i] = s[j] => i = j}

(***************************************************************************)
(* One run of main(), statement by statement, and the rerun that a change  *)
(* of a widget causes                                                      *)
(***************************************************************************)

Widgets == <<f_owner, f_team, f_effect>>

\* The state in which a run of main() starts: nothing bound yet
StartOfRun ==
  /\ pc = "load"
  /\ error = ""
  /\ nextId = 1
  /\ data = None
  /\ tiles = None
  /\ filtered = None
  /\ star_table = None
  /\ log_table = None
  /\ effectiveness_summary = None
  /\ fig2 = None
  /\ inputs_used = None
  /\ owner_summary = None
  /\ owner_table = None

\* The program: the table is the sample of lines 14-85
Init ==
  /\ source = SampleData
  /\ f_owner = {} /\ f_team = {} /\ f_effect = {}
  /\ StartOfRun

\* main() had the literal of lines 14-85 been the sample or any list of the
\* pool.  The program itself starts from Init only; these starts serve to
\* check over more tables what holds of the program, and show nothing that
\* the program does.
InitLists ==
  /\ source \in Lists \cup {SampleData}
  /\ f_owner = {} /\ f_team = {} /\ f_effect = {}
  /\ StartOfRun

\* Lines 14-85: data = pd.DataFrame([...])
Load ==
  /\ pc = "load"
  /\ data' = DataFrame(nextId, source)
  /\ nextId' = nextId + 1
  /\ pc' = "categorize"
  /\ UNCHANGED <<source, error, tiles, Widgets, filtered, star_table,
                 log_table, effectiveness_summary, fig2, inputs_used,
                 owner_summary, owner_table>>

\* Line 99: data["Input Type"] = data["Inputs Used"].apply(categorize_input).
\* A frame built from no dicts has no column "Inputs Used": KeyError.
Categorize ==
  /\ pc = "categorize"
  /\ IF "Inputs Used" \in Range(data.columns)
       THEN /\ data' = SetColumn(data, "Input Type",
                                 ApplyCategorize(Column(data, "Inputs Used")))
            /\ pc' = "decision_date"
            /\ error' = error
       ELSE /\ data' = data
            /\ pc' = "error"
            /\ error' = "KeyError"
  /\ UNCHANGED <<source, nextId, tiles, Widgets, filtered, star_table,
                 log_table, effectiveness_summary, fig2, inputs_used,
                 owner_summary, owner_table>>

\* Line 100: data["Decision Date"] = pd.to_datetime(data["Decision Date"])
ParseDecisionDate ==
  /\ pc = "decision_date"
  /\ data' = SetColumn(data, "Decision Date",
                       ToDatetimeSeries(Column(data, "Decision Date")))
  /\ pc' = "outcome_date"
  /\ UNCHANGED <<source, error, nextId, tiles, Widgets, filtered, star_table,
                 log_table, effectiveness_summary, fig2, inputs_used,
                 owner_summary, owner_table>>

\* Line 101: data["Outcome Date"] = pd.to_datetime(data["Outcome Date"])
ParseOutcomeDate ==
  /\ pc = "outcome_date"
  /\ data' = SetColumn(data, "Outcome Date",
                       ToDatetimeSeries(Column(data, "Outcome Date")))
  /\ pc' = "time_to_outcome"
  /\ UNCHANGED <<source, error, nextId, tiles, Widgets, filtered, star_table,
                 log_table, effectiveness_summary, fig2, inputs_used,
                 owner_summary, owner_table>>

\* Line 102: data["Time to Outcome (days)"] = (... - ...).dt.days
TimeToOutcome ==
  /\ pc = "time_to_outcome"
  /\ data' = SetColumn(data, "Time to Outcome (days)", TimeToOutcomeDays(data))
  /\ pc' = "metrics"
  /\ UNCHANGED <<source, error, nextId, tiles, Widgets, filtered, star_table,
                 log_table, effectiveness_summary, fig2, inputs_used,
                 owner_summary, owner_table>>

\* A faulty variant of MetricsFrame: the tiles are computed from the selected rows
MetricsFrameFiltered == FilterFrame(data, f_owner, f_team, f_effect, nextId)

\* The frame the tiles are computed from (lines 118-121 read data)
MetricsFrame == data

\* Lines 116-121: the four tiles
Metrics ==
  /\ pc = "metrics"
  /\ tiles' = summaryMetrics(MetricsFrame)
  /\ pc' = "filter"
  /\ UNCHANGED <<source, error, nextId, data, Widgets, filtered, star_table,
                 log_table, effectiveness_summary, fig2, inputs_used,
                 owner_summary, owner_table>>

\* Lines 127-137: the multiselects return the selections, filtered is built
Filter ==
  /\ pc = "filter"
  /\ filtered' = FilterFrame(data, f_owner, f_team, f_effect, nextId)
  /\ nextId' = nextId + 4
  /\ pc' = "star"
  /\ UNCHANGED <<source, error, data, tiles, Widgets, star_table, log_table,
                 effectiveness_summary, fig2, inputs_used, owner_summary,
                 owner_table>>

\* Lines 143-144
Star ==
  /\ pc = "star"
  /\ star_table' = StarDecisions(filtered, nextId)
  /\ nextId' = nextId + 2
  /\ pc' = "log"
  /\ UNCHANGED <<source, error, data, tiles, Widgets, filtered, log_table,
                 effectiveness_summary, fig2, inputs_used, owner_summary,
                 owner_table>>

\* Lines 150-151
Log ==
  /\ pc = "log"
  /\ log_table' = ResetIndexDrop(filtered, nextId)
  /\ nextId' = nextId + 1
  /\ pc' = "effectiveness"
  /\ UNCHANGED <<source, error, data, tiles, Widgets, filtered, star_table,
                 effectiveness_summary, fig2, inputs_used, owner_summary,
                 owner_table>>

\* Lines 157-162
EffectivenessChart ==
  /\ pc = "effectiveness"
  /\ effectiveness_summary' \in
       ValueCounts(Column(filtered, "Effectiveness"), nextId)
  /\ nextId' = nextId + 1
  /\ pc' = "scatter"
  /\ UNCHANGED <<source, error, data, tiles, Widgets, filtered, star_table,
                 log_table, fig2, inputs_used, owner_summary, owner_table>>

\* Lines 168-178
Scatter ==
  /\ pc = "scatter"
  /\ fig2' = ScatterPoints(filtered)
  /\ pc' = "inputs"
  /\ UNCHANGED <<source, error, nextId, data, tiles, Widgets, filtered,
                 star_table, log_table, effectiveness_summary, inputs_used,
                 owner_summary, owner_table>>

\* Lines 184-191
InputsUsed ==
  /\ pc = "inputs"
  /\ inputs_used' \in InputUsage(filtered, nextId)
  /\ nextId' = nextId + 2
  /\ pc' = "owners"
  /\ UNCHANGED <<source, error, data, tiles, Widgets, filtered, star_table,
                 log_table, effectiveness_summary, fig2, owner_summary,
                 owner_table>>

\* Lines 197-207
OwnerPerformance ==
  /\ pc = "owners"
  /\ owner_summary' = OwnerSummary(filtered, nextId)
  /\ owner_table' = RoundFrame(OwnerSummary(filtered, nextId), nextId + 1)
  /\ nextId' = nextId + 2
  /\ pc' = "done"
  /\ UNCHANGED <<source, error, data, tiles, Widgets, filtered, star_table,
                 log_table, effectiveness_summary, fig2, inputs_used>>

\* A new run starts: the names of the last run are gone
Restart ==
  /\ pc' = "load"
  /\ error' = ""
  /\ nextId' = 1
  /\ data' = None
  /\ tiles' = None
  /\ filtered' = None
  /\ star_table' = None
  /\ log_table' = None
  /\ effectiveness_summary' = None
  /\ fig2' = None
  /\ inputs_used' = None
  /\ owner_summary' = None
  /\ owner_table' = None

\* A set with one element put in or taken out
Toggle(S, x) == IF x \in S THEN S \ {x} ELSE S \cup {x}

\* The user picks or unpicks one option of one multiselect (lines 128-130);
\* Streamlit then runs main() again from the top with the new selection.
Rerun ==
  /\ pc = "done"
  /\ \/ \E o \in Options(data, "Owner") :
          /\ f_owner' = Toggle(f_owner, o)
          /\ UNCHANGED <<f_team, f_effect>>
     \/ \E t \in Options(data, "Team") :
          /\ f_team' = Toggle(f_team, t)
          /\ UNCHANGED <<f_owner, f_effect>>
     \/ \E e \in Options(data, "Effectiveness") :
          /\ f_effect' = Toggle(f_effect, e)
          /\ UNCHANGED <<f_owner, f_team>>
  /\ Restart
  /\ UNCHANGED source

Next ==
  \/ Load
  \/ Categorize
  \/ ParseDecisionDate
  \/ ParseOutcomeDate
  \/ TimeToOutcome
  \/ Metrics
  \/ Filter
  \/ Star
  \/ Log
  \/ EffectivenessChart
  \/ Scatter
  \/ InputsUsed
  \/ OwnerPerformance
  \/ Rerun

Spec == Init /\ [][Next]_vars

SpecLists == InitLists /\ [][Next]_vars

(***************************************************************************)
(* Properties                                                              *)
(***************************************************************************)

\* The statements of a run at which filtered is bound
FilteredBound ==
  pc \in {"star", "log", "effectiveness", "scatter", "inputs", "owners", "done"}

\* The statements of a run at which the derived columns are on data
Derived == pc \in {"metrics", "filter"} \/ FilteredBound

\* A row passes the selections: each non-empty selection holds its value
Passes(r) ==
  /\ (f_owner # {} => r["Owner"] \in f_owner)
  /\ (f_team # {} => r["Team"] \in f_team)
  /\ (f_effect # {} => r["Effectiveness"] \in f_effect)

\* C1: filtered holds exactly the rows of data whose owner, team and
\* effectiveness each belong to the corresponding selection when that
\* selection is not empty (no selection at all keeps every row), in the
\* order they have in data.
C1_FilterKeepsPassingRowsInOrder ==
  FilteredBound => filtered.rows = SelectSeq(data.rows, Passes)

\* C1 witness: an owner is selected, no team is, and the filter kept at
\* least two rows and dropped at least one.
C1_Witness ==
  /\ pc = "done"
  /\ f_owner # {} /\ f_team = {}
  /\ Len(filtered.rows) >= 2
  /\ Len(filtered.rows) < Len(data.rows)

\* The character c is the letter k (a lower-case letter) in either case
SameLetter(c, k) == c = k \/ (c \in Chars /\ ord(c) + 32 = ord(k))

\* The keyword kw occurs in text, in any mix of cases
Occurs(kw, text) ==
  \E i \in 1..(Len(text) - Len(kw) + 1) :
    \A j \in 1..Len(kw) : SameLetter(text[i + j - 1], kw[j])

OccursAny(kws, text) == \E kw \in kws : Occurs(kw, text)

\* C2: a text in which "trend", "analysis" or "logs" occurs (any case) is
\* Data Analysis, also when a Feedback keyword occurs in it; otherwise a
\* text in which "survey", "comment" or "complaint" occurs is Feedback;
\* every other text, the empty one too, is Observation.
C2_ClassificationByRuleOrder ==
  (Derived \/ pc \in {"decision_date", "outcome_date", "time_to_outcome"}) =>
    \A i \in 1..Len(data.rows) :
      LET text == data.rows[i]["Inputs Used"]
          type == data.rows[i]["Input Type"]
          isData == OccursAny({KwTrend, KwAnalysis, KwLogs}, text)
          isFeedback == OccursAny({KwSurvey, KwComment, KwComplaint}, text)
      IN  /\ isData => type = DataAnalysis
          /\ (~isData /\ isFeedback) => type = Feedback
          /\ (~isData /\ ~isFeedback) => type = Observation

\* C2 witness: one text holds a Data Analysis keyword in upper case and a
\* Feedback keyword and is Data Analysis, and an empty text is Observation.
C2_Witness ==
  /\ pc = "decision_date"
  /\ \E i \in 1..Len(data.rows) :
       /\ Occurs(KwLogs, data.rows[i]["Inputs Used"])
       /\ ~contains(KwLogs, data.rows[i]["Inputs Used"])
       /\ Occurs(KwSurvey, data.rows[i]["Inputs Used"])
       /\ data.rows[i]["Input Type"] = DataAnalysis
  /\ \E i \in 1..Len(data.rows) :
       /\ data.rows[i]["Inputs Used"] = <<>>
       /\ data.rows[i]["Input Type"] = Observation

\* The three Effectiveness values
EffectivenessValues == {Effective, SomewhatEffective, NotEffective}

\* The number of rows of a frame whose column col holds v
RowsWith(df, col, v) == Cardinality({i \in 1..Len(df.rows) : df.rows[i][col] = v})

\* The statements of a run at which effectiveness_summary is bound
BreakdownBound == pc \in {"scatter", "inputs", "owners", "done"}

\* C3 as stated: the breakdown has an entry for each of the three
\* Effectiveness values, with count zero for a value no filtered record has.
C3_BreakdownListsAllThreeValues ==
  BreakdownBound =>
    \A v \in EffectivenessValues :
      \E i \in 1..Len(effectiveness_summary.rows) :
        /\ effectiveness_summary.rows[i].Effectiveness = v
        /\ effectiveness_summary.rows[i].Count = RowsWith(filtered, "Effectiveness", v)

\* C3 amended: the breakdown has one entry for each Effectiveness value that
\* some filtered record has, with the number of those records, and no entry
\* (hence no zero count) for a value that none has; the entries come by
\* count, largest first.
C3_BreakdownListsOccurringValues ==
  BreakdownBound =>
    LET rows == effectiveness_summary.rows
    IN  /\ \A i \in 1..Len(rows) :
             /\ rows[i].Count >= 1
             /\ rows[i].Count = RowsWith(filtered, "Effectiveness", rows[i].Effectiveness)
        /\ \A i, j \in 1..Len(rows) :
             /\ rows[i].Effectiveness = rows[j].Effectiveness => i = j
             /\ i < j => rows[i].Count >= rows[j].Count
        /\ \A v \in EffectivenessValues :
             RowsWith(filtered, "Effectiveness", v) >= 1 =>
               \E i \in 1..Len(rows) : rows[i].Effectiveness = v

\* C3 witness: every filtered record is Effective and the breakdown is the
\* single entry for Effective.
C3_Witness ==
  /\ pc = "done"
  /\ Len(filtered.rows) >= 2
  /\ \A i \in 1..Len(filtered.rows) : filtered.rows[i]["Effectiveness"] = Effective
  /\ Len(effectiveness_summary.rows) = 1
  /\ effectiveness_summary.rows[1].Count = Len(filtered.rows)

\* The group of a row of filtered: its input type and its inputs text
GroupOf(r) == <<r["Input Type"], r["Inputs Used"]>>

\* The position in filtered of the first record of a group
FirstSeen(k) ==
  CHOOSE i \in 1..Len(filtered.rows) :
    /\ GroupOf(filtered.rows[i]) = k
    /\ \A j \in 1..(i - 1) : GroupOf(filtered.rows[j]) # k

\* inputs_used has one entry per distinct (input type, inputs text) pair of
\* filtered, each with the number of records of its group, and the type of
\* an entry is the classification of its text
OneEntryPerGroup ==
  LET rows == inputs_used.rows
  IN  /\ \A i \in 1..Len(filtered.rows) :
           \E j \in 1..Len(rows) : GroupOf(rows[j]) = GroupOf(filtered.rows[i])
      /\ \A i, j \in 1..Len(rows) : GroupOf(rows[i]) = GroupOf(rows[j]) => i = j
      /\ \A j \in 1..Len(rows) :
           /\ rows[j]["Times Used"] >= 1
           /\ rows[j]["Times Used"] =
                Cardinality({i \in 1..Len(filtered.rows) :
                               filtered.rows[i]["Inputs Used"] = rows[j]["Inputs Used"]})

\* The entries of inputs_used come by count, largest first
ByCountDescending ==
  \A i, j \in 1..Len(inputs_used.rows) :
    i < j => inputs_used.rows[i]["Times Used"] >= inputs_used.rows[j]["Times Used"]

\* C4 as stated, of the table the program holds: one entry per distinct
\* pair with its count, by count descending, entries of equal count in the
\* order in which their groups first occur in the input.
C4_TiesInFirstEncounteredOrder ==
  (source = SampleData /\ pc \in {"owners", "done"}) =>
    /\ OneEntryPerGroup
    /\ ByCountDescending
    /\ \A i, j \in 1..Len(inputs_used.rows) :
         (i < j /\ inputs_used.rows[i]["Times Used"] = inputs_used.rows[j]["Times Used"])
           => FirstSeen(GroupOf(inputs_used.rows[i])) < FirstSeen(GroupOf(inputs_used.rows[j]))

\* C4 amended: one entry per distinct pair with its count (a text is one
\* group whoever owns its records, two texts are two groups also under one
\* input type), by count descending; the order of entries of equal count is
\* not the order of first occurrence.
C4_OneEntryPerGroupByCountDescending ==
  pc \in {"owners", "done"} => (OneEntryPerGroup /\ ByCountDescending)

\* C4 witness: two records of different owners share a text and are one
\* entry of count 2, ahead of an entry of count 1 of the same input type.
C4_Witness ==
  /\ pc = "done"
  /\ Len(inputs_used.rows) = 2
  /\ inputs_used.rows[1]["Times Used"] = 2
  /\ inputs_used.rows[2]["Times Used"] = 1
  /\ inputs_used.rows[1]["Input Type"] = inputs_used.rows[2]["Input Type"]
  /\ \E i, j \in 1..Len(filtered.rows) :
       /\ filtered.rows[i]["Inputs Used"] = filtered.rows[j]["Inputs Used"]
       /\ filtered.rows[i]["Owner"] # filtered.rows[j]["Owner"]

\* C5 as stated: no duration the program computes is negative (a record
\* whose outcome precedes its decision is rejected with an error first).
\* Lines 100-102 validate nothing.  Under Spec this holds, since no record
\* of the sample has an outcome before its decision and the rejection is
\* never exercised; under SpecLists it fails on record G2, which gets -4
\* days, but the program has no input path by which it could hold G2.
C5_NoNegativeDuration ==
  Derived =>
    \A i \in 1..Len(data.rows) : data.rows[i]["Time to Outcome (days)"] >= 0

\* The number of dicts of the source whose key holds v
SourceCount(key, v) == Cardinality({i \in 1..Len(source) : source[i][key] = v})

\* n is an integer nearest to a/b (b > 0)
Nearest(n, a, b) == 2 * Abs(n * b - a) <= b

\* C6: the tiles show the number of records, the percentage of Effective
\* records rounded to the nearest integer and the number of repeatable wins
\* of the whole table; for the five-record sample these are 5, 60 and 3.
C6_SummaryMetrics ==
  (pc = "filter" \/ FilteredBound) =>
    /\ tiles.TotalDecisions = Len(source)
    /\ ~tiles.EffectiveRate.isnan
    /\ Nearest(tiles.EffectiveRate.value,
               100 * SourceCount("Effectiveness", Effective), Len(source))
    /\ tiles.RepeatableWins = SourceCount("Repeatable Win", TRUE)
    /\ source = SampleData =>
         /\ tiles.TotalDecisions = 5
         /\ tiles.EffectiveRate.value = 60
         /\ tiles.RepeatableWins = 3

\* C6 witness: the tiles of the sample are rendered: 5 decisions, 60 %, 3 wins.
C6_Witness ==
  /\ pc = "done"
  /\ source = SampleData
  /\ tiles.TotalDecisions = 5
  /\ tiles.EffectiveRate = Digits(60)
  /\ tiles.RepeatableWins = 3

\* The rows of filtered of one owner
OwnerRows(o) == {i \in 1..Len(filtered.rows) : filtered.rows[i]["Owner"] = o}

RECURSIVE SumOver(_, _)
\* The sum of column col over the rows of a frame
SumOver(rows, col) ==
  IF rows = <<>> THEN 0 ELSE rows[1][col] + SumOver(Tail(rows), col)

Maria == <<"M", "a", "r", "i", "a", " ", "G", ".">>

\* C7: owner_summary has one row per owner of filtered, with the number of
\* the owner's records (these add up to the number of records) and 100 times
\* the share of Effective ones among them; the rows come in ascending order
\* of the owner, so the order is the same for the same input; for the sample
\* the row of "Maria G." holds 2 decisions, 100 % Effective.
C7_OwnerPerformance ==
  pc = "done" =>
    LET rows == owner_summary.rows
    IN  /\ \A i \in 1..Len(filtered.rows) :
             \E j \in 1..Len(rows) : rows[j]["Owner"] = filtered.rows[i]["Owner"]
        /\ \A i, j \in 1..Len(rows) : i < j => StrLess(rows[i]["Owner"], rows[j]["Owner"])
        /\ \A j \in 1..Len(rows) :
             LET mine == OwnerRows(rows[j]["Owner"])
                 good == {i \in mine : filtered.rows[i]["Effectiveness"] = Effective}
                 pct == rows[j]["% Effective"]
             IN  /\ mine # {}
                 /\ rows[j]["Decisions Made"] = Cardinality(mine)
                 /\ pct.den > 0
                 /\ pct.num * Cardinality(mine) = 100 * Cardinality(good) * pct.den
        /\ SumOver(rows, "Decisions Made") = Len(filtered.rows)
        /\ (source = SampleData /\ f_owner = {} /\ f_team = {} /\ f_effect = {}) =>
             \E j \in 1..Len(rows) :
               /\ rows[j]["Owner"] = Maria
               /\ rows[j]["Decisions Made"] = 2
               /\ rows[j]["% Effective"] = Rat(100, 1)

\* C7 witness: the sample unfiltered, with the row of "Maria G.": 2 and 100.
C7_Witness ==
  /\ pc = "done"
  /\ source = SampleData
  /\ Len(filtered.rows) = 5
  /\ Len(owner_summary.rows) = 4
  /\ owner_summary.rows[4]["Owner"] = Maria
  /\ owner_summary.rows[4]["Decisions Made"] = 2
  /\ owner_summary.rows[4]["% Effective"] = Rat(100, 1)

\* The views of a run with an empty filtered table are empty, each once the
\* statement that builds it has returned
EmptyViews ==
  /\ pc \in {"log", "effectiveness", "scatter", "inputs", "owners", "done"}
       => star_table.rows = <<>>
  /\ BreakdownBound => effectiveness_summary.rows = <<>>
  /\ pc \in {"owners", "done"} => inputs_used.rows = <<>>
  /\ pc = "done" => (owner_summary.rows = <<>> /\ owner_table.rows = <<>>)

Views ==
  (IF FilteredBound THEN {filtered} ELSE {})
  \cup (IF pc \in {"log", "effectiveness", "scatter", "inputs", "owners", "done"}
          THEN {star_table} ELSE {})
  \cup (IF pc \in {"effectiveness", "scatter", "inputs", "owners", "done"}
          THEN {log_table} ELSE {})
  \cup (IF BreakdownBound THEN {effectiveness_summary} ELSE {})
  \cup (IF pc \in {"owners", "done"} THEN {inputs_used} ELSE {})
  \cup (IF pc = "done" THEN {owner_summary, owner_table} ELSE {})

\* C9 as stated: once loaded, the store holds exactly what the load
\* produced, whatever classification, duration and the other queries do.
C9_StoreIsWhatLoadProduced ==
  pc \notin {"load", "error"} =>
    (data.columns = SourceColumns /\ data.rows = source)

\* The columns that lines 99-102 write
WrittenColumns ==
  {"Input Type", "Decision Date", "Outcome Date", "Time to Outcome (days)"}

\* C9 amended: classification and duration write onto the store: they add
\* the columns Input Type and Time to Outcome (days) and put parsed dates in
\* place of the date texts; the records, their other fields and their order
\* stay as loaded.  Once these columns are written, no statement of the run
\* changes the store, and every view is an object other than the store.
C9_StoreFrozenAfterDerivedColumns ==
  /\ [](pc \notin {"load", "error"} =>
          /\ Len(data.rows) = Len(source)
          /\ \A i \in 1..Len(source) :
               \A c \in (DOMAIN source[i]) \ WrittenColumns :
                 data.rows[i][c] = source[i][c])
  /\ [](Derived => \A v \in Views : v.id # data.id)
  /\ [][(Derived /\ pc # "done") => data' = data]_vars

\* C9 witness: the derived columns are on the store, an owner is selected,
\* the run is over, and filtered is another object with fewer rows.
C9_Witness ==
  /\ pc = "done"
  /\ f_owner # {}
  /\ data.columns # SourceColumns
  /\ data.rows # source
  /\ filtered.id # data.id
  /\ Len(filtered.rows) < Len(data.rows)
  /\ Len(filtered.rows) >= 1

\* C10: whatever is selected, the four tiles show the values of the whole
\* table (for the sample: 5 decisions, 6.0 days, 60 %, 3 wins), while the
\* STAR table, the log, the breakdown, the input usage and the owner
\* performance are made of the filtered records only.
C10_TilesIgnoreTheFilter ==
  /\ (pc = "filter" \/ FilteredBound) =>
       tiles = [TotalDecisions |-> 5, AvgTimeToOutcome |-> Digits(60),
                EffectiveRate |-> Digits(60), RepeatableWins |-> 3]
  /\ pc = "done" =>
       /\ \A i \in 1..Len(filtered.rows) : Passes(filtered.rows[i])
       /\ log_table.rows = filtered.rows
       /\ star_table.rows = SelectSeq(filtered.rows, LAMBDA r : r["STAR Decision"])
       /\ SumOver(effectiveness_summary.rows, "Count") = Len(filtered.rows)
       /\ SumOver(inputs_used.rows, "Times Used") = Len(filtered.rows)
       /\ SumOver(owner_summary.rows, "Decisions Made") = Len(filtered.rows)
       /\ \A j \in 1..Len(owner_summary.rows) :
            OwnerRows(owner_summary.rows[j]["Owner"]) # {}

\* C10 witness: one owner is selected, the views hold her two records and
\* the tiles still show all five.
C10_Witness ==
  /\ pc = "done"
  /\ f_owner = {Maria}
  /\ Len(filtered.rows) = 2
  /\ Len(log_table.rows) = 2
  /\ tiles.TotalDecisions = 5

====
